---- MODULE Spec2Model ----
(***************************************************************************)
(* Model of victor-iyiola/self-driving-simulation:                         *)
(*   data.py  - load_data / make_dataset: the input pipeline               *)
(*              (from_tensor_slices -> map(_parser) -> shuffle -> batch)   *)
(*   model.py - train: restore-or-init, the epoch loop, periodic summary   *)
(*              and checkpoint writes, the KeyboardInterrupt handler       *)
(* Two state machines share the module: DataSpec iterates one pass of the  *)
(* dataset built by load_data; Spec runs train().                          *)
(***************************************************************************)
EXTENDS Integers, Sequences, FiniteSets, TLC

\* ------------------------------------------------------------- bounds
MaxRows == 3        \* manifest rows
MaxBatch == 2       \* largest batch_size passed
MaxBuffer == 2      \* largest buffer_size passed
MaxEpochs == 2      \* largest args.epochs
MaxEvery == 2       \* largest args.log_every / args.save_every
MaxCkptStep == 2    \* largest global_step found in a checkpoint at startup

\* ---------------------------------------------------- program constants
DefaultBufferSize == 1000
DefaultBatchSize == 128

Files == {"a.jpg", "b.jpg"}
Angles == {0, 1}

VARIABLES
    \* ---- data.py: one pass over the dataset
    manifest,     \* rows of driving_log.csv: [img_center, steering_angle]
    kwargs,       \* keyword arguments given to load_data
    dataset,      \* the dataset object load_data returned
    dpc,          \* "call": load_data not called yet; "iter": pass running; "end": exhausted
    src,          \* next element the shuffle stage reads from the map stage
    buffer,       \* the shuffle stage's buffer
    cur,          \* the batch stage's partial batch
    batches,      \* batches the pass has produced, in order
    \* ---- model.py: train()
    args,         \* command line arguments
    nRows,        \* rows of the manifest train() reads
    save_dir,     \* the checkpoint directory and the latest checkpoint found in it at startup
    pc,           \* position in train()
    var_state,    \* "uninitialized" | "restored" | "initialized"
    global_step,  \* the global_step variable of the session
    epoch,        \* loop variable of line 154
    next_epoch,   \* state of range(args.epochs)
    iter_pos,     \* examples the iterator produced since its initializer ran
    inits,        \* epochs at which iterator.initializer ran, in order
    _step,        \* value fetched at line 161
    stdout,       \* progress lines printed at line 163: <<epoch, _step>>
    log,          \* logging records: levels and messages
    summaries,    \* steps of the events written by writer.add_summary
    saves,        \* global_step tags of the saver.save calls, in order
    sigint        \* a KeyboardInterrupt is pending

dataVars == <<manifest, kwargs, dataset, dpc, src, buffer, cur, batches>>
trainVars == <<args, nRows, save_dir, pc, var_state, global_step, epoch, next_epoch,
               iter_pos, inits, _step, stdout, log, summaries, saves, sigint>>
vars == <<dataVars, trainVars>>

\* ================================================================ data.py

\* Python truthiness of the values a keyword argument takes here.
Truthy(x) == x \notin {"None", "False"}

\* An image read from `filename`, decoded and cast to float32.
Image(filename) == [file |-> filename, dtype |-> "float32"]

\* data.py:55-75
_parser(filename, label) == [image |-> Image(filename), label |-> <<label>>]

Min(a, b) == IF a < b THEN a ELSE b

\* make_dataset with the batch size hard-wired (mutation).
make_dataset_fixed_batch(features, labels, kw) ==
    [elements |-> [i \in DOMAIN features |-> _parser(features[i], labels[i])],
     shuffle |-> TRUE,
     buffer_size |-> IF kw.buffer_size # 0 THEN kw.buffer_size ELSE DefaultBufferSize,
     batch_size |-> DefaultBatchSize]

\* make_dataset pairing feature i with the label of the mirrored row (mutation).
make_dataset_misaligned(features, labels, kw) ==
    [elements |-> [i \in DOMAIN features |->
                      _parser(features[i], labels[Len(labels) + 1 - i])],
     shuffle |-> TRUE,
     buffer_size |-> IF kw.buffer_size # 0 THEN kw.buffer_size ELSE DefaultBufferSize,
     batch_size |-> IF kw.batch_size # 0 THEN kw.batch_size ELSE DefaultBatchSize]

\* data.py:78-100, labels given.  kwargs.get(k) is None for an absent key;
\* `x or d` is d when x is falsy (None, False, 0).  An absent integer argument
\* is written 0 here, which `or` treats like None.
make_dataset(features, labels, kw) ==
    LET shuffle == IF Truthy(kw.shuffle) THEN kw.shuffle ELSE "True"
        buffer_size == IF kw.buffer_size # 0 THEN kw.buffer_size ELSE DefaultBufferSize
        batch_size == IF kw.batch_size # 0 THEN kw.batch_size ELSE DefaultBatchSize
        slices == [i \in DOMAIN features |-> <<features[i], labels[i]>>]
        mapped == [i \in DOMAIN slices |-> _parser(slices[i][1], slices[i][2])]
    IN  [elements |-> mapped,
         shuffle |-> Truthy(shuffle),
         buffer_size |-> buffer_size,
         batch_size |-> batch_size]

\* data.py:103-119, features is None: the columns of the manifest.
load_data(rows, kw) ==
    LET features == [i \in DOMAIN rows |-> rows[i].img_center]
        labels == [i \in DOMAIN rows |-> rows[i].steering_angle]
    IN  make_dataset(features, labels, kw)

\* The window of the shuffle stage; a dataset without the stage passes its
\* elements through in order, as a window of one element does.
Window(ds) == IF ds.shuffle THEN ds.buffer_size ELSE 1

RemoveAt(s, i) == [j \in 1..(Len(s) - 1) |-> IF j < i THEN s[j] ELSE s[j + 1]]

NoDataset == [elements |-> <<>>, shuffle |-> FALSE, buffer_size |-> 0, batch_size |-> 0]

Rows(n) == [1..n -> [img_center : Files, steering_angle : Angles]]

DataInit ==
    /\ \E n \in 0..MaxRows : manifest \in Rows(n)
    /\ kwargs \in [shuffle : {"None", "False", "True"},
                   buffer_size : 0..MaxBuffer,
                   batch_size : 0..MaxBatch]
    /\ dataset = NoDataset
    /\ dpc = "call"
    /\ src = 1
    /\ buffer = <<>>
    /\ cur = <<>>
    /\ batches = <<>>

\* data.py:103-119: the call of load_data; the iterator starts a pass.
LoadData ==
    /\ dpc = "call"
    /\ dataset' = load_data(manifest, kwargs)
    /\ dpc' = "iter"
    /\ UNCHANGED <<manifest, kwargs, src, buffer, cur, batches>>

\* data.py:97: the shuffle stage reads the next mapped element into its buffer.
ShuffleFill ==
    /\ dpc = "iter"
    /\ src <= Len(dataset.elements)
    /\ Len(buffer) < Window(dataset)
    /\ buffer' = Append(buffer, dataset.elements[src])
    /\ src' = src + 1
    /\ UNCHANGED <<manifest, kwargs, dataset, dpc, cur, batches>>

\* data.py:97-98: the shuffle stage hands a random element of its full buffer
\* (or of what is left at the end of the input) to the batch stage, which
\* emits the batch once it holds batch_size elements.
ShuffleEmit ==
    /\ dpc = "iter"
    /\ buffer # <<>>
    /\ Len(buffer) = Window(dataset) \/ src > Len(dataset.elements)
    /\ \E i \in DOMAIN buffer :
          LET grown == Append(cur, buffer[i])
          IN  /\ buffer' = RemoveAt(buffer, i)
              /\ IF Len(grown) = dataset.batch_size
                    THEN batches' = Append(batches, grown) /\ cur' = <<>>
                    ELSE batches' = batches /\ cur' = grown
    /\ UNCHANGED <<manifest, kwargs, dataset, dpc, src>>

\* data.py:98: end of input; batch() keeps the remainder as a short batch.
EndOfSequence ==
    /\ dpc = "iter"
    /\ src > Len(dataset.elements)
    /\ buffer = <<>>
    /\ batches' = IF cur # <<>> THEN Append(batches, cur) ELSE batches
    /\ cur' = <<>>
    /\ dpc' = "end"
    /\ UNCHANGED <<manifest, kwargs, dataset, src, buffer>>

TrainIdle ==
    /\ args = [epochs |-> 0, log_every |-> 1, save_every |-> 1, batch_size |-> 0]
    /\ nRows = 0
    /\ save_dir = [exists |-> FALSE, has_ckpt |-> FALSE, loadable |-> FALSE, step |-> 0]
    /\ pc = "idle"
    /\ var_state = "uninitialized"
    /\ global_step = 0
    /\ epoch = 0
    /\ next_epoch = 0
    /\ iter_pos = 0
    /\ inits = <<>>
    /\ _step = 0
    /\ stdout = <<>>
    /\ log = <<>>
    /\ summaries = <<>>
    /\ saves = <<>>
    /\ sigint = FALSE

DataNext ==
    \/ LoadData /\ UNCHANGED trainVars
    \/ ShuffleFill /\ UNCHANGED trainVars
    \/ ShuffleEmit /\ UNCHANGED trainVars
    \/ EndOfSequence /\ UNCHANGED trainVars

DataStart == DataInit /\ TrainIdle

DataSpec == DataStart /\ [][DataNext]_vars

\* ------------------------------------------------ properties of the pipeline

\* The example the manifest row stands for: its own image with its own label.
ExampleOf(row) == [image |-> [file |-> row.img_center, dtype |-> "float32"],
                   label |-> <<row.steering_angle>>]

RECURSIVE Flatten(_)
Flatten(bs) == IF bs = <<>> THEN <<>> ELSE bs[1] \o Flatten(Tail(bs))

RECURSIVE SumLen(_)
SumLen(bs) == IF bs = <<>> THEN 0 ELSE Len(bs[1]) + SumLen(Tail(bs))

\* How often each value occurs in a sequence.
Occurrences(s) ==
    [e \in {s[i] : i \in DOMAIN s} |-> Cardinality({i \in DOMAIN s : s[i] = e})]

CeilDiv(n, b) == (n + b - 1) \div b

\* The batches of a pass in manifest order: batch k holds rows (k-1)*B+1 .. k*B.
InOrderBatches(rows, B) ==
    [k \in 1..CeilDiv(Len(rows), B) |->
        [j \in 1..(Min(k * B, Len(rows)) - (k - 1) * B) |->
            ExampleOf(rows[(k - 1) * B + j])]]

\* C6: with shuffle=False no shuffle stage is applied: a full pass emits the
\* examples in manifest order, ceil(N/B) batches, the k-th holding rows
\* k*B .. k*B+B-1 (counted from 0) in order.
C6_UnshuffledPassKeepsManifestOrder ==
    (dpc = "end" /\ kwargs.shuffle = "False" /\ kwargs.batch_size >= 1)
        => batches = InOrderBatches(manifest, kwargs.batch_size)

\* C7: with N examples and batch_size B >= 1 every batch of a pass has length
\* B, except the last one, of length N mod B when B does not divide N; batches
\* closed while the pass runs have length B; the lengths of a pass sum to N.
C7_BatchLengths ==
    kwargs.batch_size >= 1 =>
        LET B == kwargs.batch_size
            N == Len(manifest)
        IN  /\ dpc = "iter" => \A k \in DOMAIN batches : Len(batches[k]) = B
            /\ dpc = "end" =>
                /\ Len(batches) = CeilDiv(N, B)
                /\ \A k \in 1..(Len(batches) - 1) : Len(batches[k]) = B
                /\ batches # <<>> =>
                      Len(batches[Len(batches)]) = IF N % B = 0 THEN B ELSE N % B
                /\ SumLen(batches) = N

\* C7 witness: a finished pass with several batches and a short last one.
C7_Witness ==
    /\ dpc = "end"
    /\ kwargs.batch_size = 2
    /\ Len(manifest) = 3
    /\ Len(batches) = 2
    /\ Len(batches[2]) = 1

\* C8: a full pass emits exactly one example per manifest row, each the image
\* of a row with the label of the same row, whatever the order.
C8_PassEmitsEachRowAligned ==
    dpc = "end" =>
        /\ Len(Flatten(batches)) = Len(manifest)
        /\ Occurrences(Flatten(batches))
             = Occurrences([i \in DOMAIN manifest |-> ExampleOf(manifest[i])])

\* C8 witness: a finished pass over rows with different images and labels
\* that the shuffle stage emitted in another order than the manifest's.
C8_Witness ==
    /\ dpc = "end"
    /\ Len(manifest) = 3
    /\ manifest[1].img_center # manifest[2].img_center
    /\ manifest[1].steering_angle # manifest[3].steering_angle
    /\ Flatten(batches) # [i \in DOMAIN manifest |-> ExampleOf(manifest[i])]

\* =============================================================== model.py

\* What the checkpoint directory can hold when train() starts: no directory,
\* an empty directory, or a latest checkpoint saved at some global step that
\* saver.restore can or cannot load.
StartDirs ==
    {[exists |-> FALSE, has_ckpt |-> FALSE, loadable |-> FALSE, step |-> 0],
     [exists |-> TRUE, has_ckpt |-> FALSE, loadable |-> FALSE, step |-> 0]}
    \cup [exists : {TRUE}, has_ckpt : {TRUE}, loadable : BOOLEAN, step : 0..MaxCkptStep]

DataIdle ==
    /\ manifest = <<>>
    /\ kwargs = [shuffle |-> "None", buffer_size |-> 0, batch_size |-> 0]
    /\ dataset = NoDataset
    /\ dpc = "idle"
    /\ src = 1
    /\ buffer = <<>>
    /\ cur = <<>>
    /\ batches = <<>>

\* model.py:104-129: the state of train() when it reaches line 138.
TrainInit ==
    /\ args \in [epochs : 0..MaxEpochs,
                 log_every : 1..MaxEvery,
                 save_every : 1..MaxEvery,
                 batch_size : 1..MaxBatch]
    /\ nRows \in 0..MaxRows
    /\ save_dir \in StartDirs
    /\ pc = "start"
    /\ var_state = "uninitialized"
    /\ global_step = 0
    /\ epoch = 0
    /\ next_epoch = 0
    /\ iter_pos = 0
    /\ inits = <<>>
    /\ _step = 0
    /\ stdout = <<>>
    /\ log = <<>>
    /\ summaries = <<>>
    /\ saves = <<>>
    /\ sigint = FALSE

\* model.py:105: data.load_data(**vars(args)); args carries batch_size but no
\* shuffle and no buffer_size.
BatchSize ==
    make_dataset(<<>>, <<>>, [shuffle |-> "None", buffer_size |-> 0,
                              batch_size |-> args.batch_size]).batch_size

\* The iterator raises OutOfRangeError when its pass is exhausted.
Exhausted == iter_pos >= nRows

\* Examples after get_next produced one more batch.
Pulled == iter_pos + Min(BatchSize, nRows - iter_pos)

\* Positions inside the try block of lines 155-177.
EpochRunning == {"init_iter", "train", "log", "save"}

\* Restore-or-init that runs the initializer after a successful restore too (mutation).
RestoreOrInit_reinit ==
    /\ pc = "start"
    /\ var_state' = "initialized"
    /\ global_step' = 0
    /\ log' = Append(log, IF save_dir.exists /\ save_dir.has_ckpt /\ save_dir.loadable
                             THEN "INFO: Restored checkpoint"
                             ELSE "WARNING: Could not load checkpoint")
    /\ save_dir' = [save_dir EXCEPT !.exists = TRUE]
    /\ pc' = "for"
    /\ UNCHANGED <<args, nRows, epoch, next_epoch, iter_pos, inits, _step, stdout,
                   summaries, saves, sigint>>

\* Restore-or-init that lets the restore error propagate (mutation).
RestoreOrInit_raise ==
    /\ pc = "start"
    /\ IF save_dir.exists
          THEN IF save_dir.has_ckpt /\ save_dir.loadable
                  THEN /\ var_state' = "restored"
                       /\ global_step' = save_dir.step
                       /\ log' = Append(log, "INFO: Restored checkpoint")
                       /\ pc' = "for"
                  ELSE /\ pc' = "raised"
                       /\ UNCHANGED <<var_state, global_step, log>>
          ELSE /\ var_state' = "initialized"
               /\ global_step' = 0
               /\ log' = Append(log, "INFO: No checkpoint")
               /\ pc' = "for"
    /\ save_dir' = [save_dir EXCEPT !.exists = TRUE]
    /\ UNCHANGED <<args, nRows, epoch, next_epoch, iter_pos, inits, _step, stdout,
                   summaries, saves, sigint>>

\* model.py:138-152.  latest_checkpoint gives None for a directory without a
\* checkpoint, and saver.restore raises on None as on a file it cannot load.
RestoreOrInit ==
    /\ pc = "start"
    /\ IF save_dir.exists
          THEN IF save_dir.has_ckpt /\ save_dir.loadable
                  THEN /\ var_state' = "restored"
                       /\ global_step' = save_dir.step
                       /\ log' = Append(log, "INFO: Restored checkpoint")
                  ELSE /\ var_state' = "initialized"
                       /\ global_step' = 0
                       /\ log' = Append(log, "WARNING: Could not load checkpoint")
          ELSE /\ var_state' = "initialized"
               /\ global_step' = 0
               /\ log' = Append(log, "INFO: No checkpoint")
    /\ save_dir' = [save_dir EXCEPT !.exists = TRUE]
    /\ pc' = "for"
    /\ UNCHANGED <<args, nRows, epoch, next_epoch, iter_pos, inits, _step, stdout,
                   summaries, saves, sigint>>

\* model.py:154: the next index of range(args.epochs), or the end of train().
ForEpoch ==
    /\ pc = "for"
    /\ IF next_epoch < args.epochs
          THEN /\ epoch' = next_epoch
               /\ next_epoch' = next_epoch + 1
               /\ pc' = "init_iter"
          ELSE /\ pc' = "finished"
               /\ UNCHANGED <<epoch, next_epoch>>
    /\ UNCHANGED <<args, nRows, save_dir, var_state, global_step, iter_pos, inits,
                   _step, stdout, log, summaries, saves, sigint>>

\* model.py:157: sess.run(iterator.initializer).
IteratorInit ==
    /\ pc = "init_iter"
    /\ ~sigint
    /\ iter_pos' = 0
    /\ inits' = Append(inits, epoch)
    /\ pc' = "train"
    /\ UNCHANGED <<args, nRows, save_dir, var_state, global_step, epoch, next_epoch,
                   _step, stdout, log, summaries, saves, sigint>>

\* The train step with an OutOfRangeError handler that keeps looping (mutation).
TrainStep_no_break ==
    /\ pc = "train"
    /\ ~sigint
    /\ IF Exhausted
          THEN /\ pc' = "train"
               /\ UNCHANGED <<iter_pos, global_step, _step, stdout>>
          ELSE /\ iter_pos' = Pulled
               /\ global_step' = global_step + 1
               /\ _step' = global_step + 1
               /\ stdout' = Append(stdout, <<epoch, global_step + 1>>)
               /\ pc' = "log"
    /\ UNCHANGED <<args, nRows, save_dir, var_state, epoch, next_epoch, inits, log,
                   summaries, saves, sigint>>

\* model.py:161-164 and 176-177.  train_op pulls one batch, updates the
\* parameters and then increments global_step.  global_step is a reference
\* variable: the tensor fetched beside train_op shares the variable's buffer
\* and is read out when the run returns, so _step is the incremented value.
\* On an exhausted iterator nothing is updated and the OutOfRangeError
\* leaves the while loop.
TrainStep ==
    /\ pc = "train"
    /\ ~sigint
    /\ IF Exhausted
          THEN /\ pc' = "for"
               /\ UNCHANGED <<iter_pos, global_step, _step, stdout>>
          ELSE /\ iter_pos' = Pulled
               /\ global_step' = global_step + 1
               /\ _step' = global_step + 1
               /\ stdout' = Append(stdout, <<epoch, global_step + 1>>)
               /\ pc' = "log"
    /\ UNCHANGED <<args, nRows, save_dir, var_state, epoch, next_epoch, inits, log,
                   summaries, saves, sigint>>

\* model.py:166-168 and 176-177.  `merged` is computed from loss, which is
\* computed from iterator.get_next(): evaluating it pulls one more batch, and
\* on an exhausted iterator raises OutOfRangeError, which leaves the while loop.
LogSummary ==
    /\ pc = "log"
    /\ ~sigint
    /\ IF _step % args.log_every = 0
          THEN IF Exhausted
                  THEN /\ pc' = "for"
                       /\ UNCHANGED <<iter_pos, summaries>>
                  ELSE /\ iter_pos' = Pulled
                       /\ summaries' = Append(summaries, _step)
                       /\ pc' = "save"
          ELSE /\ pc' = "save"
               /\ UNCHANGED <<iter_pos, summaries>>
    /\ UNCHANGED <<args, nRows, save_dir, var_state, global_step, epoch, next_epoch,
                   inits, _step, stdout, log, saves, sigint>>

\* model.py:170-174.
SaveCheckpoint ==
    /\ pc = "save"
    /\ ~sigint
    /\ saves' = IF _step % args.save_every = 0 THEN Append(saves, global_step) ELSE saves
    /\ pc' = "train"
    /\ UNCHANGED <<args, nRows, save_dir, var_state, global_step, epoch, next_epoch,
                   iter_pos, inits, _step, stdout, log, summaries, sigint>>

\* The user presses Ctrl-C while train() is inside the try block.
Interrupt ==
    /\ pc \in EpochRunning
    /\ ~sigint
    /\ sigint' = TRUE
    /\ UNCHANGED <<args, nRows, save_dir, pc, var_state, global_step, epoch, next_epoch,
                   iter_pos, inits, _step, stdout, log, summaries, saves>>

\* The KeyboardInterrupt handler without its save (mutation).
KeyboardInterrupt_no_save ==
    /\ pc \in EpochRunning
    /\ sigint
    /\ sigint' = FALSE
    /\ pc' = "interrupted"
    /\ UNCHANGED <<args, nRows, save_dir, var_state, global_step, epoch, next_epoch,
                   iter_pos, inits, _step, stdout, log, summaries, saves>>

\* model.py:178-188: the pending KeyboardInterrupt is raised at the next
\* statement of the try block; the handler saves and breaks out of the for loop.
KeyboardInterrupt ==
    /\ pc \in EpochRunning
    /\ sigint
    /\ sigint' = FALSE
    /\ saves' = Append(saves, global_step)
    /\ pc' = "interrupted"
    /\ UNCHANGED <<args, nRows, save_dir, var_state, global_step, epoch, next_epoch,
                   iter_pos, inits, _step, stdout, log, summaries>>

\* The steps of train() itself.
Program ==
    \/ RestoreOrInit
    \/ ForEpoch
    \/ IteratorInit
    \/ TrainStep
    \/ LogSummary
    \/ SaveCheckpoint
    \/ KeyboardInterrupt

Init == TrainInit /\ DataIdle

Next ==
    \/ RestoreOrInit /\ UNCHANGED dataVars
    \/ ForEpoch /\ UNCHANGED dataVars
    \/ IteratorInit /\ UNCHANGED dataVars
    \/ TrainStep /\ UNCHANGED dataVars
    \/ LogSummary /\ UNCHANGED dataVars
    \/ SaveCheckpoint /\ UNCHANGED dataVars
    \/ Interrupt /\ UNCHANGED dataVars
    \/ KeyboardInterrupt /\ UNCHANGED dataVars

Spec == Init /\ [][Next]_vars

\* train() is one thread and each of its operations returns: a step that
\* can be taken is taken.  Nothing obliges the user to interrupt.
FairSpec == Spec /\ WF_vars(Program /\ UNCHANGED dataVars)

\* ------------------------------------------------- properties of train()

Range(q) == {q[i] : i \in DOMAIN q}

\* global_step when the epoch loop starts.
StartStep == IF var_state = "restored" THEN save_dir.step ELSE 0

\* Optimizer steps train() ran in epoch e: one progress line each.
StepsIn(e) == Cardinality({i \in DOMAIN stdout : stdout[i][1] = e})

\* Batches of one pass over the manifest.
BatchesPerPass == CeilDiv(nRows, args.batch_size)

\* The body of the while loop has finished with the last step printed.
BodyDone == pc \in {"train", "for", "init_iter", "finished"}

\* C1: a KeyboardInterrupt inside the try block at global_step S leads to
\* exactly one more checkpoint save, tagged S, and to the end of the loop;
\* after it nothing runs: no iterator reset, no optimizer step, no save.
C1_InterruptSavesOnceAndStops ==
    [][ /\ (sigint /\ pc \in EpochRunning) =>
              /\ pc' = "interrupted"
              /\ saves' = Append(saves, global_step)
              /\ UNCHANGED <<global_step, inits, iter_pos, epoch, next_epoch, stdout>>
        /\ pc = "interrupted" =>
              UNCHANGED <<pc, saves, global_step, inits, iter_pos, epoch, next_epoch, stdout>>
      ]_vars

\* C1 witness: interrupted before the last epoch, after one periodic save;
\* the interrupt save is the second save and carries the current global_step.
C1_Witness ==
    /\ pc = "interrupted"
    /\ next_epoch < args.epochs
    /\ Len(saves) = 2
    /\ saves[2] = global_step
    /\ saves[1] < saves[2]

\* C2: after a successful restore of a checkpoint saved at global_step S the
\* variables stay restored, global_step never falls below S, and the i-th
\* optimizer step of the run reports step S + i (the first one S + 1).
C2_ResumeCountsFromCheckpoint ==
    /\ (pc # "start" /\ save_dir.has_ckpt /\ save_dir.loadable) => var_state = "restored"
    /\ var_state = "restored" =>
          /\ global_step = save_dir.step + Len(stdout)
          /\ \A i \in DOMAIN stdout : stdout[i][2] = save_dir.step + i
          /\ pc \in {"log", "save"} => _step = global_step

\* C2 witness: a run restored at S = 2 has printed its first step, 3.
C2_Witness ==
    /\ var_state = "restored"
    /\ save_dir.step = 2
    /\ stdout # <<>>
    /\ stdout[1][2] = 3

\* C3: restore-or-init never aborts and always leaves the variables
\* initialized before the epoch loop; when the directory exists and the
\* checkpoint cannot be loaded it logs a warning and runs the initializer.
C3_RestoreFailureFallsBackToInit ==
    /\ [](pc # "start" => var_state # "uninitialized")
    /\ [][ pc = "start" =>
             /\ pc' = "for"
             /\ var_state' \in {"restored", "initialized"}
             /\ (save_dir.exists /\ ~(save_dir.has_ckpt /\ save_dir.loadable)) =>
                   /\ log' = <<"WARNING: Could not load checkpoint">>
                   /\ var_state' = "initialized"
                   /\ global_step' = 0
         ]_vars

\* C3 witness: a run whose checkpoint could not be loaded has trained.
C3_Witness ==
    /\ save_dir.has_ckpt
    /\ ~save_dir.loadable
    /\ log = <<"WARNING: Could not load checkpoint">>
    /\ var_state = "initialized"
    /\ global_step >= 1

\* C4: every optimizer step that brings global_step to a multiple S of
\* save_every has a checkpoint tagged S saved before the next optimizer step
\* or the end of the epoch.
C4_EverySaveStepIsSaved ==
    \A i \in DOMAIN stdout :
        (/\ stdout[i][2] % args.save_every = 0
         /\ i < Len(stdout) \/ BodyDone)
            => stdout[i][2] \in Range(saves)

\* C5: every optimizer step whose step S is a multiple of log_every has
\* exactly one summary event tagged S written before the next optimizer step
\* (or the end of the epoch).
C5_EveryLogStepIsSummarised ==
    \A i \in DOMAIN stdout :
        (/\ stdout[i][2] % args.log_every = 0
         /\ i < Len(stdout) \/ BodyDone)
            => Cardinality({k \in DOMAIN summaries : summaries[k] = stdout[i][2]}) = 1

\* C9: an epoch that ran to exhaustion took one optimizer step per batch of
\* the pass, and after all epochs global_step has grown by
\* epochs * ceil(N / batch_size).
C9_OneStepPerBatch ==
    pc = "finished" =>
        /\ \A e \in 0..(args.epochs - 1) : StepsIn(e) = BatchesPerPass
        /\ global_step = StartStep + args.epochs * BatchesPerPass

\* C10: train() terminates; the iterator is reset once per epoch, for the
\* epochs 0, 1, ... in order, all of them when the run finishes; every save
\* is a periodic save of the step just taken or the interrupt save.
C10_TrainTerminates ==
    /\ <>(pc \in {"finished", "interrupted"})
    /\ [](/\ inits = [i \in 1..Len(inits) |-> i - 1]
          /\ Len(inits) <= args.epochs
          /\ pc = "finished" => Len(inits) = args.epochs)
    /\ [][ saves' # saves =>
             /\ saves' = Append(saves, global_step)
             /\ \/ pc = "save" /\ _step = global_step /\ _step % args.save_every = 0
                \/ pc' = "interrupted"
         ]_vars

\* C10 witness: a finished run of two epochs over a non-empty dataset that
\* saved periodically.
C10_Witness ==
    /\ pc = "finished"
    /\ args.epochs = 2
    /\ inits = <<0, 1>>
    /\ nRows > 0
    /\ saves # <<>>

====
